---------------------------- MODULE Spec2Model ----------------------------
(***************************************************************************)
(* A model of the xiaohongshu keyword crawler: the frontier file           *)
(* (scraper.py), the two result files and the progress file                *)
(* (scraper.py, process_result.py) and the orchestrator loop               *)
(* (automation_manager.py).                                                *)
(*                                                                         *)
(* URLs are sequences of tokens.  A token is one of                        *)
(*   "h"  the scheme-and-host prefix  https://www.   (not alphanumeric)    *)
(*   "E"  the literal  xiaohongshu.com/explore/                            *)
(*   "D"  the literal  xiaohongshu.com/discovery/item/                     *)
(*   "a", "b"  one alphanumeric character                                  *)
(*   "?"  one non-alphanumeric character of query decoration               *)
(* In every URL of the model an "E" or "D" is followed by "a", "b", "?"    *)
(* or the end of the URL, so that the regular expressions of               *)
(* normalize_url match a token sequence exactly where they match the text. *)
(***************************************************************************)
EXTENDS Integers, Sequences, FiniteSets, TLC

\* ------------------------------------------------------------------ bounds

\* operations performed in one behaviour of the frontier specification
MaxFrontierOps == 3
\* operations performed in one behaviour of the store specification
MaxStoreOps == 2
\* keywords in the work list of one run
MaxKeywords == 2
\* answers the operator gives at the login gate in one run
MaxAsks == 2

\* the calls of the persistence operations on a corrupt store
MaxCorruptOps == 1

\* cards in the feed at one pass of the listing
MaxCards == 2
\* pages of notes the listing leaves open in one call
MaxLeaks == 1
\* the numbers of records the listing is asked for
Counts == {1, 2}
\* lines of a keyword file
MaxLines == 2
\* tokens of a URL normalize_url is applied to
MaxUrlLen == 5
\* applications of normalize_url, each to what the one before returned
MaxApplications == 2

\* ------------------------------------------------------------------ values

Alnum == {"a", "b"}

U_a    == <<"h", "E", "a">>
U_aq   == <<"h", "E", "a", "?", "b">>
K_a    == <<"E", "a">>
U_b    == <<"h", "D", "b">>
U_both == <<"h", "D", "b", "?", "E", "a">>
U_x    == <<"h", "a">>
U_none == <<>>

\* the URLs the operations are called with
URLS == {U_a, U_aq, K_a, U_b, U_both, U_x, U_none}

Keywords == {"k1", "k2"}
NoKeyword == ""
NoTime == 0
NoPath == <<>>
Totals == {1, 2}

Range(s) == {s[i] : i \in 1..Len(s)}

SeqsUpTo(S, n) == UNION {[1..k -> S] : k \in 0..n}

\* the lists of one or two elements of S
Singles(S) == {<<x>> : x \in S}
Pairs(S) == {<<x, y>> : x \in S, y \in S}

Min(S) == CHOOSE x \in S : \A y \in S : x <= y

\* ------------------------------------------------------------ scraper.py

\* leftmost position at which  tok [a-zA-Z0-9]+  matches, 0 when none does
FirstMatch(url, tok) ==
    LET hits == {i \in 1..(Len(url) - 1) : url[i] = tok /\ url[i + 1] \in Alnum}
    IN  IF hits = {} THEN 0 ELSE Min(hits)

\* last position of the greedy run [a-zA-Z0-9]+ that starts at position i
RECURSIVE RunEnd(_, _)
RunEnd(url, i) ==
    IF i < Len(url) /\ url[i + 1] \in Alnum THEN RunEnd(url, i + 1) ELSE i

MatchAt_DropsLast(url, i) == <<url[i]>> \o SubSeq(url, i + 1, RunEnd(url, i + 1) - 1)

\* match.group(1) of the match at position i: the path token and the run
MatchAt(url, i) == <<url[i]>> \o SubSeq(url, i + 1, RunEnd(url, i + 1))

normalize_url(url) ==
    IF url = <<>> THEN <<>>
    ELSE IF FirstMatch(url, "E") # 0 THEN MatchAt(url, FirstMatch(url, "E"))
    ELSE IF FirstMatch(url, "D") # 0 THEN MatchAt(url, FirstMatch(url, "D"))
    ELSE url


\* ----------------------------------------------------------------- state

VARIABLES
    pendingFile,    \* pending_urls.json (PENDING_FILE)
    dataFile,       \* xiaohongshu_data.json (DATA_FILE), written by save_to_json
    mainFile,       \* output/data.json, written by process_keyword_results
    progressFile,   \* output/progress.json
    imageFiles,     \* output/images: path -> the image URL whose bytes it holds
    clock,          \* the wall clock, one tick per operation
    lastCall,       \* the operation performed last, with its arguments
    work,           \* run_automation: all_keywords_data
    pc,             \* run_automation: the statement it is at
    browser,        \* the browsing session: "none", "open" or "closed"
    closes,         \* how often browser.close() was called
    asks,           \* how often the operator was asked at the login gate
    kw,             \* index in work of the keyword of the current iteration
    kw_urls,        \* run_automation: urls, the candidate URLs of the keyword
    ci,             \* index in kw_urls of the candidate of the current iteration
    new_items,      \* the batch of the current keyword
    outcomes,       \* how the extraction of each candidate so far ended
    attempted,      \* the keywords whose iteration was started, in order
    prev,           \* how the iteration of the keyword before this one ended
    seen,           \* which kinds of fault this run has absorbed
    probe,          \* the most recent check_login_status: how often it was
                    \* called, how its wait ended, and what it returned
    user_input,     \* run_automation: the operator's most recent answer
    count,          \* scrape_search_results_interactive: its parameter
    scraped_data,   \* scrape_search_results_interactive: the records collected
    processed_urls, \* scrape_search_results_interactive: the URLs taken up
    attempts,       \* scrape_search_results_interactive: the scrolls so far
    lpc,            \* scrape_search_results_interactive: the statement it is at
    cards,          \* the hrefs of the cards of the current pass
    card_i,         \* index in cards of the card of the current iteration
    tabs,           \* the pages of notes that are open
    faulted,        \* the URLs whose page raised while its fields were read
    took_up,        \* whether the current pass took up a URL (line 310)
    call,           \* a function applied to an argument: its name and argument
    ret             \* what the function returned

runVars == <<work, pc, browser, closes, asks, kw, kw_urls, ci, new_items, outcomes,
             attempted, prev, seen, probe, user_input>>

gateVars == <<probe, user_input>>

listVars == <<count, scraped_data, processed_urls, attempts, lpc, cards, card_i, tabs,
              faulted, took_up>>

fnVars == <<call, ret>>

\* what the persistence operations and run_automation leave alone
restVars == <<listVars, fnVars>>

storeVars == <<pendingFile, dataFile, mainFile, progressFile, imageFiles, clock, lastCall>>

\* A file is a record whose kind tells what the file holds: "absent" (no
\* file), "dict" or "list" (a JSON object or array), "number" (JSON of another
\* top-level type), "garbage" (no JSON at all, the empty file included),
\* "not_utf8" (bytes that are no UTF-8 text).  The frontier's missing is the
\* set of members its object lacks; a list's others is the number of its
\* entries that are no objects (they are not in items).
AbsentPending == [kind |-> "absent", keyword |-> NoKeyword, created_at |-> NoTime,
                  urls |-> <<>>, scraped_urls |-> <<>>, missing |-> {}]
AbsentList == [kind |-> "absent", items |-> <<>>, others |-> 0]
AbsentProgress == [kind |-> "absent", completed_keywords |-> <<>>, total_keywords |-> 0]

\* lastCall.before is the frontier the call loaded (for the two frontier operations)
\* lastCall.raised tells whether the call ended with an exception, and
\* lastCall.corrupt which of the files it loaded held something else than
\* what the program writes, as pairs of the file's name and kind
NoCall == [op |-> "none", urls |-> <<>>, keyword |-> NoKeyword, total |-> 0,
           before |-> AbsentPending, raised |-> FALSE, corrupt |-> {}]

\* a note as a dictionary; a key the dictionary lacks holds its No... value
Note(url, title, images) ==
    [url |-> url, title |-> title, images |-> images, keyword |-> NoKeyword,
     scraped_at |-> NoTime, local_image_path |-> NoPath]

\* json.load in the two loaders of scraper.py raises UnicodeDecodeError on a
\* file that is no UTF-8 text, which except (JSONDecodeError, IOError) does
\* not catch
LoadRaises(file) == file.kind = "not_utf8"

\* the dictionaries of the list load_existing_data returns
load_existing_data(file) ==
    IF file.kind = "list" THEN file.items ELSE <<>>

\* the list load_existing_data returns has an entry that is no dictionary
HasOthers(file) == file.kind = "list" /\ file.others > 0

load_pending_urls(file) ==
    IF file.kind = "dict"
    THEN file
    ELSE [kind |-> "dict", keyword |-> NoKeyword, created_at |-> NoTime,
          urls |-> <<>>, scraped_urls |-> <<>>, missing |-> {}]

save_pending_urls(data) == [data EXCEPT !.kind = "dict"]

Admits_IgnoringScraped(normalized, existing_urls, scraped_urls, scraped_data_urls) ==
    /\ normalized # <<>>
    /\ normalized \notin existing_urls
    /\ normalized \notin scraped_data_urls

\* the admission test of add_urls_to_pending
Admits(normalized, existing_urls, scraped_urls, scraped_data_urls) ==
    /\ normalized # <<>>
    /\ normalized \notin existing_urls
    /\ normalized \notin scraped_urls
    /\ normalized \notin scraped_data_urls

\* the set the admission test calls existing_urls, before the loop
ExistingUrls(pending) == Range(pending.urls)

\* what one admission adds to existing_urls
AdmittedKey(url) == normalize_url(url)

\* the loop of add_urls_to_pending from position i on: the final pending["urls"]
RECURSIVE AddLoop(_, _, _, _, _, _)
AddLoop(urls, i, pending_urls, existing_urls, scraped_urls, scraped_data_urls) ==
    IF i > Len(urls) THEN pending_urls
    ELSE IF Admits(normalize_url(urls[i]), existing_urls, scraped_urls, scraped_data_urls)
         THEN AddLoop(urls, i + 1, Append(pending_urls, urls[i]),
                      existing_urls \cup {AdmittedKey(urls[i])},
                      scraped_urls, scraped_data_urls)
         ELSE AddLoop(urls, i + 1, pending_urls, existing_urls,
                      scraped_urls, scraped_data_urls)

ScrapedDataUrls(file) ==
    {normalize_url(load_existing_data(file)[i].url) : i \in 1..Len(load_existing_data(file))}

\* add_urls_to_pending raises: in a loader, at pending["created_at"] (line
\* 251), at item.get (line 260), at pending["urls"] (lines 265 and 271)
add_urls_to_pending_raises(file, data) ==
    \/ LoadRaises(file)
    \/ "created_at" \in load_pending_urls(file).missing
    \/ LoadRaises(data)
    \/ HasOthers(data)
    \/ "urls" \in load_pending_urls(file).missing

\* the frontier file after add_urls_to_pending.  With no member urls the call
\* raises at line 265 when a URL is admitted, before the file is written, and
\* else at line 271, after it was written.
add_urls_to_pending(file, data, urls, keyword, now) ==
    LET pending == load_pending_urls(file)
        pending_urls == AddLoop(urls, 1, pending.urls, ExistingUrls(pending),
                                Range(pending.scraped_urls), ScrapedDataUrls(data))
    IN  IF \/ LoadRaises(file)
           \/ "created_at" \in pending.missing
           \/ LoadRaises(data)
           \/ HasOthers(data)
           \/ "urls" \in pending.missing /\ pending_urls # <<>>
        THEN file
        ELSE save_pending_urls(
                [pending EXCEPT
                    !.keyword = IF keyword # NoKeyword THEN keyword ELSE @,
                    !.created_at = IF @ = NoTime THEN now ELSE @,
                    !.urls = pending_urls])

KeepPending_RawCompare(pending_urls, normalized) ==
    LET Keep(u) == u # normalized
    IN  SelectSeq(pending_urls, Keep)

\* the pending entries mark_url_as_scraped keeps
KeepPending(pending_urls, normalized) ==
    LET Keep(u) == normalize_url(u) # normalized
    IN  SelectSeq(pending_urls, Keep)

\* the scraped list mark_url_as_scraped leaves
AddScraped(scraped_urls, normalized) ==
    IF normalized \notin Range(scraped_urls)
    THEN Append(scraped_urls, normalized)
    ELSE scraped_urls

\* mark_url_as_scraped raises: in the loader, at pending["urls"] (line 301)
mark_url_as_scraped_raises(file) ==
    \/ LoadRaises(file)
    \/ "urls" \in load_pending_urls(file).missing

mark_url_as_scraped(file, url) ==
    LET pending == load_pending_urls(file)
    IN  IF mark_url_as_scraped_raises(file)
        THEN file
        ELSE save_pending_urls(
                [pending EXCEPT
                    !.urls = KeepPending(@, normalize_url(url)),
                    !.scraped_urls = AddScraped(@, normalize_url(url)),
                    !.missing = @ \ {"scraped_urls"}])

IsSaved_NormalizedAgainstRaw(existing_data, url) ==
    normalize_url(url) \in {existing_data[i].url : i \in 1..Len(existing_data)}

\* the duplicate test of save_to_json
IsSaved(existing_data, url) ==
    url \in {existing_data[i].url : i \in 1..Len(existing_data)}

\* save_to_json raises: in the loader, at item.get (line 112)
save_to_json_raises(file) == LoadRaises(file) \/ HasOthers(file)

save_to_json(file, note_data) ==
    IF save_to_json_raises(file) \/ IsSaved(load_existing_data(file), note_data.url)
    THEN file
    ELSE [kind |-> "list", items |-> Append(load_existing_data(file), note_data),
          others |-> 0]

\* ----------------------------------------------------- process_result.py

ImagePath(keyword, i) == <<keyword, i>>

ImagePaths == {ImagePath(k, i) : k \in Keywords, i \in {1, 2}}

NoFile == ""

\* img_url of an item: its first image, None ("") when it has none
ImageUrl(item) == IF item.images # <<>> THEN item.images[1] ELSE ""

\* step 2 for item i: the download is attempted and ok[i] tells whether it succeeded
Downloaded(new_data, ok, i) == ImageUrl(new_data[i]) # "" /\ ok[i]

\* the items after step 2 (local_image_path set) and the marks of step 3
StampedItems(keyword, new_data, ok, now) ==
    [i \in 1..Len(new_data) |->
        [new_data[i] EXCEPT
            !.local_image_path =
                IF Downloaded(new_data, ok, i) THEN ImagePath(keyword, i) ELSE NoPath,
            !.keyword = keyword,
            !.scraped_at = now]]

\* output/images after step 2: download_image overwrites the file at img_path
WriteImages(images, keyword, new_data, ok) ==
    [p \in ImagePaths |->
        IF \E i \in 1..Len(new_data) : p = ImagePath(keyword, i) /\ Downloaded(new_data, ok, i)
        THEN ImageUrl(new_data[CHOOSE i \in 1..Len(new_data) :
                                   p = ImagePath(keyword, i) /\ Downloaded(new_data, ok, i)])
        ELSE images[p]]

IsDuplicate_PerKeyword(history, item) ==
    \E j \in 1..Len(history) :
        history[j].url = item.url /\ history[j].keyword = item.keyword

\* the duplicate test of step 3
IsDuplicate(history, item) ==
    \E j \in 1..Len(history) : history[j].url = item.url

\* the merge loop of step 3 from position i on: the final history
RECURSIVE MergeLoop(_, _, _)
MergeLoop(history, items, i) ==
    IF i > Len(items) THEN history
    ELSE IF ~IsDuplicate(history, items[i])
         THEN MergeLoop(Append(history, items[i]), items, i + 1)
         ELSE MergeLoop(history, items, i + 1)

\* lines 48-57: the dictionaries of history; whatever reading the file
\* raises gives the empty history
LoadHistory(file) == IF file.kind = "list" THEN file.items ELSE <<>>

\* lines 46-79: the main file written back; the entries of history that are
\* no dictionaries are skipped by the duplicate test and stay in the list
MergeMain(file, keyword, new_data, ok, now) ==
    [kind |-> "list",
     items |-> MergeLoop(LoadHistory(file), StampedItems(keyword, new_data, ok, now), 1),
     others |-> IF file.kind = "list" THEN file.others ELSE 0]

AddCompleted_Always(completed_keywords, keyword) ==
    Append(completed_keywords, keyword)

\* what step 4 appends the keyword to
AddCompleted(completed_keywords, keyword) ==
    IF keyword \notin Range(completed_keywords)
    THEN Append(completed_keywords, keyword)
    ELSE completed_keywords

LoadProgress_AnyJson(file, total_keywords) ==
    IF file.kind \in {"dict", "dict_no_completed", "list", "number"}
    THEN file
    ELSE [kind |-> "dict", completed_keywords |-> <<>>, total_keywords |-> total_keywords]

\* lines 83-94: progress before the keyword is added.  A file that cannot be
\* read or parsed leaves the default of line 83 (except: pass), JSON that is
\* no object is replaced by it (line 89), and an object whose
\* completed_keywords is missing or no list ("dict_no_completed") gets the
\* empty list (line 93).
LoadProgress(file, total_keywords) ==
    IF file.kind = "dict" THEN file
    ELSE IF file.kind = "dict_no_completed"
         THEN [file EXCEPT !.kind = "dict", !.completed_keywords = <<>>]
         ELSE [kind |-> "dict", completed_keywords |-> <<>>,
               total_keywords |-> total_keywords]

\* step 4: the progress object written back
UpdateProgress(file, keyword, total_keywords) ==
    [LoadProgress(file, total_keywords) EXCEPT
        !.completed_keywords = AddCompleted(@, keyword),
        !.total_keywords = total_keywords]

\* ------------------------------------------------------------ the inputs

\* the lists add_urls_to_pending is called with: every URL alone, and every
\* pair of the three URLs of which two have the same normalized key
UrlLists == Singles(URLS) \cup Pairs({U_a, U_aq, U_b})

AddKeywords == {NoKeyword, "k1"}

\* the notes save_to_json is called with
SavedNotes == {Note(u, "t1", <<>>) : u \in {U_aq, U_b}}

\* the items of the batches process_keyword_results is called with
Items == {Note(U_a, "t1", <<"img1">>), Note(U_a, "t2", <<"img2">>), Note(U_b, "t1", <<>>)}

\* a second note with an image, which comes in a batch of its own
ItemWithImage == Note(U_b, "t2", <<"img3">>)

\* the batches: empty, one item, two items
Batches == {<<>>} \cup Singles(Items \cup {ItemWithImage}) \cup Pairs(Items)

\* what a frontier file, a result file and the progress file can hold that
\* the program did not write
IsCorruptPending(file) == file.kind \notin {"absent", "dict"} \/ file.missing # {}

IsCorruptList(file) == file.kind \notin {"absent", "list"} \/ file.others > 0

IsCorruptProgress(file) == file.kind \notin {"absent", "dict"}

\* the files among those a call loads that are corrupt
Corrupt(pending, data, main, progress) ==
    {<<"pending", f.kind>> : f \in {f \in pending : IsCorruptPending(f)}}
    \cup {<<"data", f.kind>> : f \in {f \in data : IsCorruptList(f)}}
    \cup {<<"main", f.kind>> : f \in {f \in main : IsCorruptList(f)}}
    \cup {<<"progress", f.kind>> : f \in {f \in progress : IsCorruptProgress(f)}}

\* ------------------------------------------------------- the operations

StoreInit ==
    /\ pendingFile = AbsentPending
    /\ dataFile = AbsentList
    /\ mainFile = AbsentList
    /\ progressFile = AbsentProgress
    /\ imageFiles = [p \in ImagePaths |-> NoFile]
    /\ clock = 1
    /\ lastCall = NoCall

\* no check_login_status was called yet
NoProbe == [n |-> 0, wait |-> "none", is_logged_in |-> FALSE]

\* the operator was not asked yet
NoInput == ""

NoPrev == [how |-> "none", keyword |-> NoKeyword, batch |-> <<>>, paced |-> FALSE]

\* no function is applied
NoApply == [fn |-> "none", arg |-> <<>>]

FnInit ==
    /\ call = NoApply
    /\ ret = <<>>

\* scrape_search_results_interactive(n), before its first statement
ListInit(n) ==
    /\ count = n
    /\ scraped_data = <<>>
    /\ processed_urls = {}
    /\ attempts = 0
    /\ lpc = "while"
    /\ cards = <<>>
    /\ card_i = 0
    /\ tabs = 0
    /\ faulted = {}
    /\ took_up = FALSE

\* no listing is collected and no function applied
RestInit ==
    /\ ListInit(0)
    /\ FnInit

\* run_automation with the work list w, before its first statement
RunInit(w) ==
    /\ work = w
    /\ pc = "start"
    /\ browser = "none"
    /\ closes = 0
    /\ asks = 0
    /\ kw = 0
    /\ kw_urls = <<>>
    /\ ci = 0
    /\ new_items = <<>>
    /\ outcomes = <<>>
    /\ attempted = <<>>
    /\ prev = NoPrev
    /\ seen = {}
    /\ probe = NoProbe
    /\ user_input = NoInput

\* the files as a first run finds them, and no run under way
Init ==
    /\ StoreInit
    /\ RunInit(<<>>)
    /\ RestInit

AddUrlsToPending(maxOps) ==
    \E urls \in UrlLists, keyword \in AddKeywords :
        /\ clock <= maxOps
        /\ pendingFile' = add_urls_to_pending(pendingFile, dataFile, urls, keyword, clock)
        /\ clock' = clock + 1
        /\ lastCall' = [NoCall EXCEPT !.op = "add_urls_to_pending",
                                      !.urls = urls, !.keyword = keyword,
                                      !.before = load_pending_urls(pendingFile),
                                      !.raised = add_urls_to_pending_raises(pendingFile, dataFile),
                                      !.corrupt = Corrupt({pendingFile}, {dataFile}, {}, {})]
        /\ UNCHANGED <<dataFile, mainFile, progressFile, imageFiles>>
        /\ UNCHANGED runVars
        /\ UNCHANGED restVars

MarkUrlAsScraped(maxOps) ==
    \E url \in URLS :
        /\ clock <= maxOps
        /\ pendingFile' = mark_url_as_scraped(pendingFile, url)
        /\ clock' = clock + 1
        /\ lastCall' = [NoCall EXCEPT !.op = "mark_url_as_scraped", !.urls = <<url>>,
                                      !.before = load_pending_urls(pendingFile),
                                      !.raised = mark_url_as_scraped_raises(pendingFile),
                                      !.corrupt = Corrupt({pendingFile}, {}, {}, {})]
        /\ UNCHANGED <<dataFile, mainFile, progressFile, imageFiles>>
        /\ UNCHANGED runVars
        /\ UNCHANGED restVars

SaveToJson(maxOps) ==
    \E note \in SavedNotes :
        /\ clock <= maxOps
        /\ dataFile' = save_to_json(dataFile, [note EXCEPT !.scraped_at = clock])
        /\ clock' = clock + 1
        /\ lastCall' = [NoCall EXCEPT !.op = "save_to_json", !.urls = <<note.url>>,
                                      !.raised = save_to_json_raises(dataFile),
                                      !.corrupt = Corrupt({}, {dataFile}, {}, {})]
        /\ UNCHANGED <<pendingFile, mainFile, progressFile, imageFiles>>
        /\ UNCHANGED runVars
        /\ UNCHANGED restVars

ProcessKeywordResults(keywords, batches, totals, maxOps) ==
    \E keyword \in keywords, new_data \in batches, total_keywords \in totals :
        \E ok \in [1..Len(new_data) -> BOOLEAN] :
            /\ clock <= maxOps
            /\ imageFiles' = WriteImages(imageFiles, keyword, new_data, ok)
            /\ mainFile' = MergeMain(mainFile, keyword, new_data, ok, clock)
            /\ progressFile' = UpdateProgress(progressFile, keyword, total_keywords)
            /\ clock' = clock + 1
            /\ lastCall' = [NoCall EXCEPT !.op = "process_keyword_results",
                                          !.keyword = keyword,
                                          !.urls = [i \in 1..Len(new_data) |-> new_data[i].url],
                                          !.total = total_keywords,
                                          !.corrupt = Corrupt({}, {}, {mainFile}, {progressFile})]
            /\ UNCHANGED <<pendingFile, dataFile>>
            /\ UNCHANGED runVars
            /\ UNCHANGED restVars
        /\ UNCHANGED restVars

vars == <<storeVars, runVars, restVars>>

\* the batches the frontier specification persists: one item, no image
FrontierBatches == Singles({Note(U_a, "t1", <<>>), Note(U_b, "t1", <<>>)})

NextFrontier ==
    \/ AddUrlsToPending(MaxFrontierOps)
    \/ MarkUrlAsScraped(MaxFrontierOps)
    \/ SaveToJson(MaxFrontierOps)
    \/ ProcessKeywordResults({"k1"}, FrontierBatches, {1}, MaxFrontierOps)

SpecFrontier == Init /\ [][NextFrontier]_vars

NextStore ==
    \/ SaveToJson(MaxStoreOps)
    \/ ProcessKeywordResults(Keywords, Batches, Totals, MaxStoreOps)

SpecStore == Init /\ [][NextStore]_vars

\* the frontier file as something else than the program left it: no JSON, JSON of
\* another type, no UTF-8 text, or an object that lacks members
PendingContents ==
    {[AbsentPending EXCEPT !.kind = k] : k \in {"garbage", "number", "list", "not_utf8"}}
    \cup {[kind |-> "dict", keyword |-> "k1",
           created_at |-> IF "created_at" \in m THEN NoTime ELSE 1,
           urls |-> IF "urls" \in m THEN <<>> ELSE <<U_a>>,
           scraped_urls |-> IF "scraped_urls" \in m THEN <<>> ELSE <<normalize_url(U_b)>>,
           missing |-> m] : m \in SUBSET {"created_at", "urls", "scraped_urls"}}

\* a result file likewise: no list, or a list with an entry that is no object
ListContents ==
    {[AbsentList EXCEPT !.kind = k] : k \in {"garbage", "number", "dict", "not_utf8"}}
    \cup {[kind |-> "list", items |-> i, others |-> n] :
             i \in {<<>>, <<Note(U_a, "t1", <<>>)>>}, n \in {0, 1}}

\* the progress file likewise
ProgressContents ==
    {[AbsentProgress EXCEPT !.kind = k] : k \in {"garbage", "number", "list", "not_utf8"}}
    \cup {[kind |-> "dict_no_completed", completed_keywords |-> <<>>, total_keywords |-> 1],
          [kind |-> "dict", completed_keywords |-> <<"k1">>, total_keywords |-> 1]}

\* one of the four files holds such content, the others are absent
InitCorrupt ==
    /\ RunInit(<<>>)
    /\ RestInit
    /\ imageFiles = [p \in ImagePaths |-> NoFile]
    /\ clock = 1
    /\ lastCall = NoCall
    /\ pendingFile \in PendingContents \cup {AbsentPending}
    /\ dataFile \in ListContents \cup {AbsentList}
    /\ mainFile \in ListContents \cup {AbsentList}
    /\ progressFile \in ProgressContents \cup {AbsentProgress}
    /\ Cardinality({f \in {pendingFile, dataFile, mainFile, progressFile} :
                        f.kind # "absent"}) = 1

NextCorrupt ==
    \/ AddUrlsToPending(MaxCorruptOps)
    \/ MarkUrlAsScraped(MaxCorruptOps)
    \/ SaveToJson(MaxCorruptOps)
    \/ ProcessKeywordResults(Keywords, FrontierBatches, Totals, MaxCorruptOps)

SpecCorrupt == InitCorrupt /\ [][NextCorrupt]_vars

\* -------------------------------------------------- automation_manager.py

\* how an awaited call on the browsing session can end: it returns, it raises
\* an Exception, or the operator's interrupt is raised in it
CallOutcomes == {"ok", "fault", "interrupt"}

WorkItems == {[keyword |-> k, count |-> c] : k \in Keywords, c \in {1, 2}}

WorkLists == SeqsUpTo(WorkItems, MaxKeywords)

\* what browser.get_search_results(count) can return: at most count candidates
get_search_results(n) ==
    {l \in {<<>>, <<U_a>>, <<U_b, U_a>>} : Len(l) <= n}

\* what browser.extract_note_content(url) can return: a note, the note of a
\* page on which no selector matched ("blank": every field at its default),
\* or nothing
extract_note_content(url) == {"data", "blank", "nothing"}

\* the dictionary of a returned note, after data['url'] = url
ExtractedItem(url) == Note(url, "t1", <<>>)

\* the dictionary of the note of a blank page, after data['url'] = url
BlankItem(url) == Note(url, "", <<>>)

\* lines 118-121: the dictionary that goes to the batch
RecordOf(url, result) == IF result = "blank" THEN BlankItem(url) ELSE ExtractedItem(url)

\* where the loop over the keywords goes when an Exception leaves the body
AfterKeywordFault == "recover"

AfterRecovery_Propagates(outcome) == IF outcome = "ok" THEN "loop" ELSE "crashed"

\* where it goes when the recovery navigation ends, however it ends
AfterRecovery(outcome) == "loop"

AfterCandidateFault_Break(i, n) == n + 1

\* the candidate the loop takes up after the one at position i raised
AfterCandidateFault(i, n) == i + 1

\* the batch after the candidate url ended with result
Collect(batch, url, result) ==
    IF result \in {"data", "blank"} THEN Append(batch, RecordOf(url, result)) ELSE batch

\* lines 53-63: the work list, and the browsing session
Start ==
    /\ pc = "start"
    /\ \/ /\ work = <<>>
          /\ pc' = "done"
          /\ UNCHANGED browser
       \/ /\ work # <<>>
          /\ \E outcome \in {"ok", "fault"} :
                IF outcome = "ok"
                THEN browser' = "open" /\ pc' = "goto_home"
                ELSE browser' = "none" /\ pc' = "crashed"
    /\ UNCHANGED <<work, closes, asks, kw, kw_urls, ci, new_items, outcomes,
                   attempted, prev, seen>>
    /\ UNCHANGED gateVars
    /\ UNCHANGED storeVars
    /\ UNCHANGED restVars

\* line 68: the home page; an exception here leaves run_automation
GotoHome ==
    /\ pc = "goto_home"
    /\ \E outcome \in CallOutcomes :
          pc' = IF outcome = "ok" THEN "probe" ELSE "crashed"
    /\ UNCHANGED <<work, browser, closes, asks, kw, kw_urls, ci, new_items,
                   outcomes, attempted, prev, seen>>
    /\ UNCHANGED gateVars
    /\ UNCHANGED storeVars
    /\ UNCHANGED restVars

\* browser_manager.py 123-136: how the wait for the login marker can end
WaitOutcomes == {"attached", "timeout", "fault", "interrupt"}

Escapes_UnlessTimeout(wait) == wait \in {"fault", "interrupt"}

\* browser_manager.py 131-136: the outcomes of the wait that leave
\* check_login_status as an exception; the bare except catches every one
Escapes(wait) == FALSE

\* browser_manager.py 115-136: True when the marker was attached, False when
\* the wait timed out or raised
check_login_status(wait) == wait = "attached"

AfterProbe_GateSkipped(is_logged_in) == "loop"

\* lines 71-76 and 87-90: where run_automation goes with the probe's answer
AfterProbe(is_logged_in) == IF is_logged_in THEN "loop" ELSE "ask"

AfterAnswer_ElseIsYes(answer) ==
    CASE answer = "no" -> "aborted"
      [] OTHER -> "reload"

\* lines 79-94: where run_automation goes with the operator's answer
AfterAnswer(answer) ==
    CASE answer = "yes" -> "reload"
      [] answer = "no" -> "aborted"
      [] OTHER -> "ask"

\* lines 69 and 85: the login probe
Probe ==
    /\ pc = "probe"
    /\ \E wait \in WaitOutcomes :
          IF Escapes(wait)
          THEN /\ pc' = "crashed"
               /\ probe' = [n |-> probe.n + 1, wait |-> wait, is_logged_in |-> FALSE]
          ELSE /\ pc' = AfterProbe(check_login_status(wait))
               /\ probe' = [n |-> probe.n + 1, wait |-> wait,
                            is_logged_in |-> check_login_status(wait)]
    /\ UNCHANGED <<work, browser, closes, asks, kw, kw_urls, ci, new_items,
                   outcomes, attempted, prev, seen, user_input>>
    /\ UNCHANGED storeVars
    /\ UNCHANGED restVars

\* lines 76-94: the operator's answer; browser.close() before the return
\* that follows a no
Ask ==
    /\ pc = "ask"
    /\ asks < MaxAsks
    /\ asks' = asks + 1
    /\ \E answer \in {"yes", "no", "other", "interrupt"} :
          /\ user_input' = answer
          /\ IF answer = "interrupt"
             THEN pc' = "crashed" /\ UNCHANGED <<browser, closes>>
             ELSE /\ pc' = AfterAnswer(answer)
                  /\ IF AfterAnswer(answer) = "aborted"
                     THEN browser' = "closed" /\ closes' = closes + 1
                     ELSE UNCHANGED <<browser, closes>>
    /\ UNCHANGED <<work, kw, kw_urls, ci, new_items, outcomes, attempted, prev, seen,
                   probe>>
    /\ UNCHANGED storeVars
    /\ UNCHANGED restVars

\* lines 80-82: the refresh after a yes
Reload ==
    /\ pc = "reload"
    /\ \E outcome \in CallOutcomes :
          pc' = IF outcome = "ok" THEN "probe" ELSE "crashed"
    /\ UNCHANGED <<work, browser, closes, asks, kw, kw_urls, ci, new_items,
                   outcomes, attempted, prev, seen>>
    /\ UNCHANGED gateVars
    /\ UNCHANGED storeVars
    /\ UNCHANGED restVars

\* lines 99-103: the next keyword
NextKeyword ==
    /\ pc = "loop"
    /\ kw < Len(work)
    /\ kw' = kw + 1
    /\ attempted' = Append(attempted, work[kw + 1].keyword)
    /\ kw_urls' = <<>>
    /\ ci' = 0
    /\ new_items' = <<>>
    /\ outcomes' = <<>>
    /\ pc' = "goto_search"
    /\ UNCHANGED <<work, browser, closes, asks, prev, seen>>
    /\ UNCHANGED gateVars
    /\ UNCHANGED storeVars
    /\ UNCHANGED restVars

\* lines 99, 148-150: no keyword is left; the finally clause closes the session
Finish ==
    /\ pc = "loop"
    /\ kw = Len(work)
    /\ browser' = "closed"
    /\ closes' = closes + 1
    /\ pc' = "done"
    /\ UNCHANGED <<work, asks, kw, kw_urls, ci, new_items, outcomes, attempted,
                   prev, seen>>
    /\ UNCHANGED gateVars
    /\ UNCHANGED storeVars
    /\ UNCHANGED restVars

\* line 107: browser.goto_search_page(keyword)
GotoSearch ==
    /\ pc = "goto_search"
    /\ \E outcome \in CallOutcomes :
          /\ pc' = CASE outcome = "ok" -> "get_results"
                     [] outcome = "fault" -> AfterKeywordFault
                     [] outcome = "interrupt" -> "interrupt"
          /\ seen' = IF outcome = "fault" THEN seen \cup {"keyword"} ELSE seen
    /\ UNCHANGED <<work, browser, closes, asks, kw, kw_urls, ci, new_items,
                   outcomes, attempted, prev>>
    /\ UNCHANGED gateVars
    /\ UNCHANGED storeVars
    /\ UNCHANGED restVars

\* lines 110-113: browser.get_search_results(count=target_count)
GetResults ==
    /\ pc = "get_results"
    /\ \/ \E found \in get_search_results(work[kw].count) :
             /\ kw_urls' = found
             /\ ci' = 1
             /\ pc' = "candidates"
             /\ UNCHANGED seen
       \/ \E outcome \in {"fault", "interrupt"} :
             /\ pc' = IF outcome = "fault" THEN AfterKeywordFault ELSE "interrupt"
             /\ seen' = IF outcome = "fault" THEN seen \cup {"keyword"} ELSE seen
             /\ UNCHANGED <<kw_urls, ci>>
    /\ UNCHANGED <<work, browser, closes, asks, kw, new_items, outcomes,
                   attempted, prev>>
    /\ UNCHANGED gateVars
    /\ UNCHANGED storeVars
    /\ UNCHANGED restVars

\* lines 114-128: one candidate
Extract ==
    /\ pc = "candidates"
    /\ ci <= Len(kw_urls)
    /\ \/ \E result \in extract_note_content(kw_urls[ci]) :
             /\ new_items' = Collect(new_items, kw_urls[ci], result)
             /\ outcomes' = Append(outcomes, result)
             /\ ci' = ci + 1
             /\ UNCHANGED <<pc, seen>>
       \/ /\ outcomes' = Append(outcomes, "fault")
          /\ ci' = AfterCandidateFault(ci, Len(kw_urls))
          /\ seen' = seen \cup {"candidate"}
          /\ UNCHANGED <<pc, new_items>>
       \/ /\ pc' = "interrupt"
          /\ UNCHANGED <<new_items, outcomes, ci, seen>>
    /\ UNCHANGED <<work, browser, closes, asks, kw, kw_urls, attempted, prev>>
    /\ UNCHANGED gateVars
    /\ UNCHANGED storeVars
    /\ UNCHANGED restVars

\* lines 130-132: the candidates are exhausted.  With a batch that is not
\* empty, process_keyword_results(...) is called without await: the call makes
\* a coroutine object that nothing awaits, its body never runs, and no file
\* is read or written.  With an empty batch nothing is called.
Persist ==
    /\ pc = "candidates"
    /\ ci > Len(kw_urls)
    /\ pc' = "pace"
    /\ UNCHANGED <<work, browser, closes, asks, kw, kw_urls, ci, new_items,
                   outcomes, attempted, prev, seen>>
    /\ UNCHANGED gateVars
    /\ UNCHANGED storeVars
    /\ UNCHANGED restVars

\* lines 134-136: the rest between two keywords
Pace ==
    /\ pc = "pace"
    /\ \E outcome \in {"ok", "interrupt"} :
          IF outcome = "ok"
          THEN /\ pc' = "loop"
               /\ prev' = [how |-> "completed", keyword |-> work[kw].keyword,
                           batch |-> new_items, paced |-> TRUE]
          ELSE /\ pc' = "interrupt"
               /\ UNCHANGED prev
    /\ UNCHANGED <<work, browser, closes, asks, kw, kw_urls, ci, new_items,
                   outcomes, attempted, seen>>
    /\ UNCHANGED gateVars
    /\ UNCHANGED storeVars
    /\ UNCHANGED restVars

\* lines 138-144: the handler of the keyword; whatever the recovery navigation
\* raises is swallowed by the bare except
Recover ==
    /\ pc = "recover"
    /\ \E outcome \in CallOutcomes :
          /\ pc' = AfterRecovery(outcome)
          /\ seen' = IF outcome = "ok" THEN seen ELSE seen \cup {"recovery_" \o outcome}
    /\ prev' = [how |-> "faulted", keyword |-> work[kw].keyword,
                batch |-> new_items, paced |-> FALSE]
    /\ UNCHANGED <<work, browser, closes, asks, kw, kw_urls, ci, new_items,
                   outcomes, attempted>>
    /\ UNCHANGED gateVars
    /\ UNCHANGED storeVars
    /\ UNCHANGED restVars

\* lines 146-150: the interrupt leaves the loop; the finally clause closes the
\* session
Interrupted ==
    /\ pc = "interrupt"
    /\ browser' = "closed"
    /\ closes' = closes + 1
    /\ pc' = "done"
    /\ seen' = seen \cup {"interrupt"}
    /\ UNCHANGED <<work, asks, kw, kw_urls, ci, new_items, outcomes, attempted, prev>>
    /\ UNCHANGED gateVars
    /\ UNCHANGED storeVars
    /\ UNCHANGED restVars

InitRun ==
    /\ StoreInit
    /\ \E w \in WorkLists : RunInit(w)
    /\ RestInit

NextRun ==
    \/ Start
    \/ GotoHome
    \/ Probe
    \/ Ask
    \/ Reload
    \/ NextKeyword
    \/ Finish
    \/ GotoSearch
    \/ GetResults
    \/ Extract
    \/ Persist
    \/ Pace
    \/ Recover
    \/ Interrupted

SpecRun == InitRun /\ [][NextRun]_vars

\* ------------------------------------------------------ browser_manager.py

\* line 285: the scrolls after which the listing gives up
MaxAttempts == 20

\* An href is a sequence of tokens as a URL is; "/E" stands for the path
\* "/explore/" at the start of a relative href, "p" for a link that has
\* "user/profile" in it, and the empty href for a card with no link.
NoHref == <<>>
ProfileHref == <<"p">>
R_a == <<"/E", "a">>
R_aq == <<"/E", "a", "?", "b">>

Hrefs == {NoHref, ProfileHref, R_a, R_aq, U_b}

\* the cards a pass can find in the feed: up to MaxCards cards, no two with
\* the same href (a later pass can find the cards of an earlier one again)
CardLists ==
    {l \in SeqsUpTo(Hrefs, MaxCards) : \A p, q \in 1..Len(l) : p # q => l[p] # l[q]}

\* line 303: an href that starts with "/" gets the site before it
FullUrl(href) ==
    IF href # <<>> /\ href[1] = "/E" THEN <<"h", "E">> \o Tail(href) ELSE href

\* lines 298-306: the card is passed over before anything is opened
SkipsCard(href, processed) ==
    \/ href = NoHref
    \/ href = ProfileHref
    \/ FullUrl(href) \in processed

\* the fields _scrape_page_content reads, in the order it reads them
FieldOrder == <<"title", "content", "likes", "collects", "comments", "author", "images">>

TextFields == {"title", "content", "likes", "collects", "comments", "author"}

\* A page of a note: the text fields for which a selector matches, and the
\* position in FieldOrder of the field whose locator raises (0: none does)
Pages == [matches : {{}, TextFields}, fault_at : {0, 4}]

\* lines 350-391: the keys of the dictionary _scrape_page_content returns.  A
\* field with no matching selector gets no key, images always gets one, and
\* an exception anywhere gives the empty dictionary.
scrape_page_content(page) ==
    IF page.fault_at # 0 THEN {} ELSE page.matches \cup {"images"}

\* lines 326-328: url is set in what _scrape_page_content returned, and the
\* dictionary is appended when it is not empty
Appends(note_keys) == note_keys \cup {"url"} # {}

NoteData(full_url, note_keys) == [url |-> full_url, keys |-> note_keys \cup {"url"}]

\* lines 285-289: the head of the while loop; the cards of the pass
ListingPass ==
    /\ lpc = "while"
    /\ IF Len(scraped_data) < count /\ attempts < MaxAttempts
       THEN \E outcome \in {"ok", "fault"} :
               IF outcome = "ok"
               THEN /\ lpc' = "cards"
                    /\ cards' \in CardLists
                    /\ card_i' = 1
               ELSE /\ lpc' = "raised"
                    /\ UNCHANGED <<cards, card_i>>
       ELSE /\ lpc' = "return"
            /\ UNCHANGED <<cards, card_i>>
    /\ took_up' = FALSE
    /\ UNCHANGED <<count, scraped_data, processed_urls, attempts, tabs, faulted>>
    /\ UNCHANGED <<storeVars, runVars, fnVars>>

\* lines 291-321: the next card: passed over, or opened in a new page.  An
\* exception before the new page exists ("click_fault") or after
\* ("load_fault") is caught at line 338 and the loop goes on.
OpenCard ==
    /\ lpc = "cards"
    /\ card_i <= Len(cards)
    /\ Len(scraped_data) < count
    /\ IF SkipsCard(cards[card_i], processed_urls)
       THEN /\ card_i' = card_i + 1
            /\ UNCHANGED <<lpc, processed_urls, tabs, took_up>>
       ELSE /\ processed_urls' = processed_urls \cup {FullUrl(cards[card_i])}
            /\ took_up' = TRUE
            /\ \E outcome \in {"ok", "click_fault", "load_fault"} :
                  /\ outcome = "load_fault" => tabs < MaxLeaks
                  /\ tabs' = IF outcome = "click_fault" THEN tabs ELSE tabs + 1
                  /\ lpc' = IF outcome = "ok" THEN "scrape" ELSE "cards"
                  /\ card_i' = IF outcome = "ok" THEN card_i ELSE card_i + 1
    /\ UNCHANGED <<count, scraped_data, attempts, cards, faulted>>
    /\ UNCHANGED <<storeVars, runVars, fnVars>>

\* lines 324-331: the fields of the page
ScrapeCard ==
    /\ lpc = "scrape"
    /\ \E page \in Pages :
          /\ scraped_data' =
                IF Appends(scrape_page_content(page))
                THEN Append(scraped_data,
                            NoteData(FullUrl(cards[card_i]), scrape_page_content(page)))
                ELSE scraped_data
          /\ faulted' = IF page.fault_at # 0
                        THEN faulted \cup {FullUrl(cards[card_i])}
                        ELSE faulted
    /\ lpc' = "close"
    /\ UNCHANGED <<count, processed_urls, attempts, cards, card_i, tabs, took_up>>
    /\ UNCHANGED <<storeVars, runVars, fnVars>>

\* lines 333-340: the page is closed; when close() raises, the handler of
\* line 338 goes on with the page open
CloseCard ==
    /\ lpc = "close"
    /\ \E outcome \in {"ok", "fault"} :
          /\ outcome = "fault" => tabs <= MaxLeaks
          /\ tabs' = IF outcome = "ok" THEN tabs - 1 ELSE tabs
    /\ lpc' = "cards"
    /\ card_i' = card_i + 1
    /\ UNCHANGED <<count, scraped_data, processed_urls, attempts, cards, faulted, took_up>>
    /\ UNCHANGED <<storeVars, runVars, fnVars>>

\* lines 292-293 and 342-346: the cards are exhausted or the batch is full;
\* a batch that is not full scrolls and counts the attempt
Scroll ==
    /\ lpc = "cards"
    /\ card_i > Len(cards) \/ Len(scraped_data) >= count
    /\ IF Len(scraped_data) < count
       THEN \E outcome \in {"ok", "fault"} :
               IF outcome = "ok"
               THEN lpc' = "while" /\ attempts' = attempts + 1
               ELSE lpc' = "raised" /\ UNCHANGED attempts
       ELSE lpc' = "while" /\ UNCHANGED attempts
    /\ UNCHANGED <<count, scraped_data, processed_urls, cards, card_i, tabs, faulted,
                   took_up>>
    /\ UNCHANGED <<storeVars, runVars, fnVars>>

InitListing ==
    /\ StoreInit
    /\ RunInit(<<>>)
    /\ FnInit
    /\ \E n \in Counts : ListInit(n)

NextListing ==
    \/ ListingPass
    \/ OpenCard
    \/ ScrapeCard
    \/ CloseCard
    \/ Scroll

SpecListing == InitListing /\ [][NextListing]_vars

\* ------------------------------------------- automation_manager.py, parsing

\* line 11
MAX_NOTES_PER_KEYWORD == 5

\* A line of the keyword file is a sequence of tokens: " " (white space),
\* "#", "-", ":", the digits "0" and "1", and "k", "m" (any other character).
Digits == {"0", "1"}

\* str.strip(): s without the white space at its ends
strip(s) ==
    LET inked == {p \in 1..Len(s) : s[p] # " "}
    IN  IF inked = {} THEN <<>>
        ELSE SubSeq(s, CHOOSE p \in inked : \A q \in inked : p <= q,
                       CHOOSE p \in inked : \A q \in inked : q <= p)

startswith(s, prefix) ==
    Len(s) >= Len(prefix) /\ SubSeq(s, 1, Len(prefix)) = prefix

split_AtLast(s) ==
    LET colons == {p \in 1..Len(s) : s[p] = ":"}
    IN  IF colons = {} THEN <<s>>
        ELSE LET at == CHOOSE p \in colons : \A q \in colons : q <= p
             IN  <<SubSeq(s, 1, at - 1), SubSeq(s, at + 1, Len(s))>>

\* line 33, content.split(':', 1): s, or what is before the first ":" and
\* what is after it
split(s) ==
    LET colons == {p \in 1..Len(s) : s[p] = ":"}
    IN  IF colons = {} THEN <<s>>
        ELSE LET at == CHOOSE p \in colons : \A q \in colons : p <= q
             IN  <<SubSeq(s, 1, at - 1), SubSeq(s, at + 1, Len(s))>>

\* the decimal digits, and the number one of them writes
DecimalDigits == <<"0", "1", "2", "3", "4", "5", "6", "7", "8", "9">>

DigitOf(c) == (CHOOSE p \in 1..10 : DecimalDigits[p] = c) - 1

\* the number a sequence of digits writes
RECURSIVE DigitsValue(_)
DigitsValue(s) ==
    IF s = <<>> THEN 0
    ELSE 10 * DigitsValue(SubSeq(s, 1, Len(s) - 1)) + DigitOf(s[Len(s)])

\* int(s) returns: s is digits, after an optional sign; else it raises
\* ValueError
IsInt(s) ==
    LET digits == IF s # <<>> /\ s[1] = "-" THEN Tail(s) ELSE s
    IN  digits # <<>> /\ \A p \in 1..Len(digits) : digits[p] \in Digits

int(s) == IF s[1] = "-" THEN 0 - DigitsValue(Tail(s)) ELSE DigitsValue(s)

\* lines 23-44: the work items a line gives: none or one
ParseLine(raw) ==
    LET line == strip(raw)
        content == IF startswith(line, <<"-", " ">>)
                   THEN strip(SubSeq(line, 3, Len(line)))
                   ELSE line
        parts == split(content)
    IN  IF line = <<>> \/ startswith(line, <<"#">>) THEN <<>>
        ELSE <<[keyword |-> strip(parts[1]),
                count |-> IF Len(parts) > 1 /\ IsInt(strip(parts[2]))
                          THEN int(strip(parts[2]))
                          ELSE MAX_NOTES_PER_KEYWORD]>>

RECURSIVE ParseLines(_)
ParseLines(lines) ==
    IF lines = <<>> THEN <<>>
    ELSE ParseLines(SubSeq(lines, 1, Len(lines) - 1)) \o ParseLine(lines[Len(lines)])

\* parse_keywords of a file that exists and has these lines, or does not exist
parse_keywords(file) == IF file.exists THEN ParseLines(file.lines) ELSE <<>>

\* The lines parse_keywords is applied to are composed of parts: white space
\* before, "- " or nothing, a name, and nothing or ":" with a text after it;
\* or they are blank or a comment.  A text after the colon comes with the
\* count Python's int gives it, None when it raises.
Names == {<<"k">>, <<"m">>, <<"k", " ", "#">>}

CountTexts ==
    {[text |-> <<" ", "1", "0">>, value |-> 10],
     [text |-> <<"1", " ">>, value |-> 1],
     [text |-> <<"-", "1">>, value |-> 0 - 1],
     [text |-> <<"0">>, value |-> 0],
     [text |-> <<>>, value |-> MAX_NOTES_PER_KEYWORD],
     [text |-> <<"k">>, value |-> MAX_NOTES_PER_KEYWORD],
     [text |-> <<"1", ":", "0">>, value |-> MAX_NOTES_PER_KEYWORD],
     [text |-> <<"1", " ", "0">>, value |-> MAX_NOTES_PER_KEYWORD]}

NoTail == [text |-> <<>>, value |-> MAX_NOTES_PER_KEYWORD]

ItemLines ==
    [kind : {"item"}, lead : {<<>>}, dash : {<<>>, <<"-", " ">>},
     name : Names, colon : {<<>>}, tail : {NoTail}]
    \cup [kind : {"item"}, lead : {<<>>}, dash : {<<>>, <<"-", " ">>},
          name : Names, colon : {<<":">>}, tail : CountTexts]
    \cup [kind : {"item"}, lead : {<<" ">>}, dash : {<<>>, <<"-", " ">>},
          name : {<<"k">>}, colon : {<<":">>},
          tail : {[text |-> <<" ", "1", "0">>, value |-> 10]}]

SkippedLines ==
    [kind : {"skipped"}, lead : {<<>>, <<" ">>}, dash : {<<>>},
     name : {<<>>, <<"#">>, <<"#", " ", "k", ":", "1">>}, colon : {<<>>}, tail : {NoTail}]

LineParts == ItemLines \cup SkippedLines

\* the line the parts make
LineText(parts) ==
    parts.lead \o parts.dash \o parts.name \o parts.colon \o parts.tail.text

\* "- k: 10", "# k", "", "m"
ExampleFile ==
    <<[kind |-> "item", lead |-> <<>>, dash |-> <<"-", " ">>, name |-> <<"k">>,
       colon |-> <<":">>, tail |-> [text |-> <<" ", "1", "0">>, value |-> 10]],
      [kind |-> "skipped", lead |-> <<>>, dash |-> <<>>, name |-> <<"#", " ", "k", ":", "1">>,
       colon |-> <<>>, tail |-> NoTail],
      [kind |-> "skipped", lead |-> <<>>, dash |-> <<>>, name |-> <<>>,
       colon |-> <<>>, tail |-> NoTail],
      [kind |-> "item", lead |-> <<>>, dash |-> <<>>, name |-> <<"m">>,
       colon |-> <<>>, tail |-> NoTail]>>

\* the keyword files: none, the example, and every file of up to MaxLines lines
KeywordFiles ==
    {[exists |-> FALSE, parts |-> <<>>], [exists |-> TRUE, parts |-> ExampleFile]}
    \cup {[exists |-> TRUE, parts |-> l] : l \in SeqsUpTo(LineParts, MaxLines)}

\* the file as parse_keywords reads it
FileText(file) ==
    [exists |-> file.exists, lines |-> [p \in 1..Len(file.parts) |-> LineText(file.parts[p])]]

InitParse ==
    /\ StoreInit
    /\ RunInit(<<>>)
    /\ ListInit(0)
    /\ call \in {[fn |-> "parse_keywords", arg |-> f] : f \in KeywordFiles}
    /\ ret = <<>>

\* parse_keywords(file_path)
ParseKeywords ==
    /\ call.fn = "parse_keywords"
    /\ ret = <<>>
    /\ ret' = <<parse_keywords(FileText(call.arg))>>
    /\ UNCHANGED call
    /\ UNCHANGED <<storeVars, runVars, listVars>>

SpecParse == InitParse /\ [][ParseKeywords]_vars

\* the URLs normalize_url is applied to: every sequence of up to MaxUrlLen
\* tokens in which a path token is followed by an identifier character, by
\* "?" or by nothing (see the head of the module)
IsUrl(u) ==
    \A p \in 1..Len(u) :
        u[p] \in {"E", "D"} /\ p < Len(u) => u[p + 1] \in Alnum \cup {"?"}

TestUrls ==
    URLS \cup {u \in SeqsUpTo({"h", "E", "D", "a", "b", "?"}, MaxUrlLen) : IsUrl(u)}

InitNormalize ==
    /\ StoreInit
    /\ RunInit(<<>>)
    /\ ListInit(0)
    /\ call \in {[fn |-> "normalize_url", arg |-> u] : u \in TestUrls}
    /\ ret = <<>>

\* normalize_url, applied to the URL and then to what it returned
NormalizeUrl ==
    /\ call.fn = "normalize_url"
    /\ Len(ret) < MaxApplications
    /\ ret' = Append(ret, normalize_url(IF ret = <<>> THEN call.arg ELSE ret[Len(ret)]))
    /\ UNCHANGED call
    /\ UNCHANGED <<storeVars, runVars, listVars>>

SpecNormalize == InitNormalize /\ [][NormalizeUrl]_vars

\* ------------------------------------------------- the frontier claims

NoRepeat(s) == \A i, j \in 1..Len(s) : i # j => s[i] # s[j]

Keys(urls) == [i \in 1..Len(urls) |-> normalize_url(urls[i])]

StoredKeys(file) == {normalize_url(file.items[i].url) : i \in 1..Len(file.items)}

\* the URLs the last add_urls_to_pending appended to pending
Appended == SubSeq(pendingFile.urls, Len(lastCall.before.urls) + 1, Len(pendingFile.urls))

\* C1: add_urls_to_pending appends no URL whose normalized key is in
\* scraped_urls, or is the key of a record persisted in the Result Store, be
\* it by save_to_json or by process_keyword_results.
C1_NeverAdmitsScrapedOrStored ==
    lastCall.op = "add_urls_to_pending" =>
        \A i \in 1..Len(Appended) :
            /\ normalize_url(Appended[i]) \notin Range(lastCall.before.scraped_urls)
            /\ normalize_url(Appended[i]) \notin StoredKeys(dataFile)
            /\ normalize_url(Appended[i]) \notin StoredKeys(mainFile)

\* C2: the persisted pending list never holds two entries with the same
\* normalized key.
C2_PendingKeysUnique == NoRepeat(Keys(pendingFile.urls))

\* C3: the normalized keys of the pending URLs and scraped_urls are disjoint.
C3_PendingScrapedDisjoint ==
    Range(Keys(pendingFile.urls)) \cap Range(pendingFile.scraped_urls) = {}

\* an add_urls_to_pending that was offered a scraped URL, with URLs pending
C3_Witness ==
    /\ lastCall.op = "add_urls_to_pending"
    /\ \E i \in 1..Len(lastCall.urls) :
            normalize_url(lastCall.urls[i]) \in Range(lastCall.before.scraped_urls)
    /\ pendingFile.urls # <<>>
    /\ Appended # <<>>

\* the entries of s whose normalized key is not key, in their order
RECURSIVE Without(_, _)
Without(s, key) ==
    IF s = <<>> THEN <<>>
    ELSE IF normalize_url(Head(s)) = key THEN Without(Tail(s), key)
         ELSE <<Head(s)>> \o Without(Tail(s), key)

Count(s, x) == Cardinality({i \in 1..Len(s) : s[i] = x})

\* C4: mark_url_as_scraped(u) removes every pending entry whose key is
\* normalize_url(u), keeps the others in their order, leaves the key in
\* scraped_urls exactly once and the rest of scraped_urls as it was, and
\* persists the result.
C4_MarkRemovesAndRecords ==
    lastCall.op = "mark_url_as_scraped" =>
        LET key == normalize_url(lastCall.urls[1])
            old == lastCall.before
        IN  /\ pendingFile.kind = "dict"
            /\ pendingFile.urls = Without(old.urls, key)
            /\ Count(pendingFile.scraped_urls, key) = 1
            /\ Without(pendingFile.scraped_urls, key) = Without(old.scraped_urls, key)
            /\ \/ pendingFile.scraped_urls = old.scraped_urls
               \/ pendingFile.scraped_urls = Append(old.scraped_urls, key)

\* a mark that removed two entries of one key and kept another entry
C4_Witness ==
    /\ lastCall.op = "mark_url_as_scraped"
    /\ Len(lastCall.before.urls) = 3
    /\ Len(pendingFile.urls) = 1

\* a mark of a URL that was marked before and was not pending
C4_WitnessAgain ==
    /\ lastCall.op = "mark_url_as_scraped"
    /\ normalize_url(lastCall.urls[1]) \in Range(lastCall.before.scraped_urls)
    /\ lastCall.before.urls # <<>>
    /\ pendingFile.urls = lastCall.before.urls

\* --------------------------------------------------- the store claims

StoredUrls(file) == [i \in 1..Len(file.items) |-> file.items[i].url]

\* C5: no two records of a persisted result file have the same url, after
\* any sequence of save_to_json and process_keyword_results calls.
C5_NoTwoRecordsShareUrl ==
    /\ NoRepeat(StoredUrls(dataFile))
    /\ NoRepeat(StoredUrls(mainFile))

\* a batch that named one URL twice, of which one record was stored in an
\* earlier call
C5_Witness ==
    /\ lastCall.op = "process_keyword_results"
    /\ Len(lastCall.urls) = 2
    /\ lastCall.urls[1] = lastCall.urls[2]
    /\ \E i \in 1..Len(mainFile.items) :
            /\ mainFile.items[i].url = lastCall.urls[1]
            /\ mainFile.items[i].scraped_at < clock - 1

\* C6: merging what is already stored changes nothing: a save_to_json of a
\* note whose url is stored, and a process_keyword_results of a batch all of
\* whose urls are stored (so also the second of two merges of one batch),
\* leave the records of the file as they were: the same records with the
\* same field values in the same order.
C6_MergeIdempotent ==
    [][ /\ (lastCall'.op = "save_to_json" /\ clock' # clock
            /\ lastCall'.urls[1] \in Range(StoredUrls(dataFile)))
           => dataFile'.items = dataFile.items
        /\ (lastCall'.op = "process_keyword_results" /\ clock' # clock
            /\ Range(lastCall'.urls) \subseteq Range(StoredUrls(mainFile)))
           => mainFile'.items = mainFile.items
      ]_vars

\* a second merge of a stored URL, under another keyword, that left the
\* record of the first merge alone
C6_Witness ==
    /\ lastCall.op = "process_keyword_results"
    /\ lastCall.urls = <<U_a>>
    /\ lastCall.keyword = "k2"
    /\ Len(mainFile.items) = 1
    /\ mainFile.items[1].url = U_a
    /\ mainFile.items[1].keyword = "k1"
    /\ mainFile.items[1].scraped_at < clock - 1

\* C7: a progress update keeps every completed keyword, records none twice,
\* and sets total_keywords to the value of the call; nothing else touches
\* the progress file.
C7_ProgressMonotone ==
    [][ /\ Range(progressFile.completed_keywords) \subseteq Range(progressFile'.completed_keywords)
        /\ NoRepeat(progressFile'.completed_keywords)
        /\ (lastCall'.op = "process_keyword_results" /\ clock' # clock) =>
              /\ lastCall'.keyword \in Range(progressFile'.completed_keywords)
              /\ progressFile'.total_keywords = lastCall'.total
        /\ lastCall'.op # "process_keyword_results" => progressFile' = progressFile
      ]_vars

\* the same keyword completed twice, with another total the second time
C7_Witness ==
    /\ lastCall.op = "process_keyword_results"
    /\ clock = 3
    /\ progressFile.completed_keywords = <<lastCall.keyword>>
    /\ progressFile.total_keywords = 2
    /\ mainFile.items # <<>>
    /\ mainFile.items[1].keyword = lastCall.keyword
    /\ mainFile.items[1].scraped_at = 1

\* ----------------------------------------------------- the run claims

\* C8: when the candidate loop of a keyword has finished without a fault of
\* the keyword, then before the next keyword starts its whole batch is in
\* the Result Store and the keyword is in the persisted completed_keywords.
C8_BatchPersistedBeforeNextKeyword ==
    (pc = "loop" /\ prev.how = "completed") =>
        /\ prev.keyword \in Range(progressFile.completed_keywords)
        /\ \A i \in 1..Len(prev.batch) :
              prev.batch[i].url \in Range(StoredUrls(mainFile))

WorkKeywords == [i \in 1..Len(work) |-> work[i].keyword]

\* C9: the keywords are attempted once each and in the order of the work
\* list; once the loop is entered no fault ends the run, and a run that no
\* interrupt has stopped ends with every keyword attempted.
C9_EveryKeywordAttempted ==
    /\ attempted = SubSeq(WorkKeywords, 1, kw)
    /\ pc = "crashed" => attempted = <<>>
    /\ (pc = "done" /\ "interrupt" \notin seen) => attempted = WorkKeywords

\* a run that ended after a fault of its first keyword and a fault of the
\* recovery navigation, with its second keyword completed
C9_Witness ==
    /\ pc = "done"
    /\ Len(work) = 2
    /\ attempted = WorkKeywords
    /\ {"keyword", "recovery_fault"} \subseteq seen
    /\ "interrupt" \notin seen
    /\ prev.how = "completed"

\* the records of the candidates among the first n whose extraction returned
\* a note, in the order of the candidates
RECURSIVE Extracted(_, _, _)
Extracted(candidates, results, n) ==
    IF n = 0 THEN <<>>
    ELSE IF results[n] \in {"data", "blank"}
         THEN Append(Extracted(candidates, results, n - 1),
                     RecordOf(candidates[n], results[n]))
         ELSE Extracted(candidates, results, n - 1)

GateStates == {"probe", "ask", "reload"}

\* a step that leaves the gate other than by an exception: the authenticated
\* probe of lines 71 and 87-88, or the no of lines 91-94
LeavesGate ==
    \/ pc = "probe" /\ pc' = "loop" /\ probe'.is_logged_in
    \/ pc = "ask" /\ pc' = "aborted" /\ user_input' = "no"

\* a keyword was taken up only after an authenticated probe, a probe after the
\* first follows a yes, and an exception of the gate left no keyword taken up
GateHeld ==
    /\ attempted # <<>> => probe.is_logged_in /\ probe.wait = "attached"
    /\ pc = "probe" /\ probe.n > 0 => user_input = "yes"
    /\ pc = "crashed" => attempted = <<>>

\* C11: no keyword is processed unless the most recent login probe answered
\* authenticated; a probe after the first one follows a yes and the refresh;
\* and the gate is left for the keyword loop only by an authenticated probe,
\* for the end of the run only by a no (an exception of the prompt or of the
\* refresh leaves run_automation itself, with no keyword processed).
C11_GatePassedOnlyWhenAuthenticated ==
    /\ GateHeld
    /\ [][GateHeld']_vars
    /\ [][(pc \in GateStates /\ pc' \notin GateStates \cup {"crashed"} => LeavesGate)]_vars

\* a keyword is processed after a probe that failed, a yes, and a probe that
\* succeeded
C11_Witness ==
    /\ attempted # <<>>
    /\ probe.n = 2
    /\ user_input = "yes"

\* lines 76-78: the loop of the gate asks again, with no probe and no refresh
StaysAtPrompt == pc' = "ask" /\ probe' = probe /\ browser' = browser

\* the run as a no leaves it
AbortedCleanly ==
    pc = "aborted" =>
        /\ user_input = "no"
        /\ browser = "closed" /\ closes = 1
        /\ attempted = <<>> /\ kw = 0
        /\ pendingFile = AbsentPending /\ dataFile = AbsentList
        /\ mainFile = AbsentList /\ progressFile = AbsentProgress
        /\ imageFiles = [p \in ImagePaths |-> NoFile]

\* C12: after a no the run is over: the session was closed exactly once, no
\* keyword was processed and no store file was written; an answer that is
\* neither yes nor no leaves the gate waiting, with no probe and no refresh.
C12_NoAbortsCleanly ==
    /\ AbortedCleanly
    /\ [][AbortedCleanly']_vars
    /\ [][(pc # "aborted")]_vars
    /\ [][(pc = "ask" /\ asks' # asks /\ user_input' = "other" => StaysAtPrompt)]_vars

\* the operator answered something else, was asked again and answered no
C12_Witness ==
    /\ pc = "aborted"
    /\ asks = 2
    /\ probe.n = 1

\* lines 69-76 and 85-90: the probe returns, and its False takes the run to
\* the prompt
ProbeAnswers ==
    /\ pc' \in {"loop", "ask"}
    /\ probe'.wait \in {"timeout", "fault"} => pc' = "ask" /\ ~probe'.is_logged_in

\* C13: a probe whose wait times out or raises answers unauthenticated and
\* is never an exception of run_automation: the run is then at the prompt for
\* the manual login.
C13_ProbeFaultIsUnauthenticated ==
    [][(pc = "probe" => ProbeAnswers)]_vars

\* the wait of the probe raised and the run is at the prompt
C13_Witness ==
    /\ pc = "ask"
    /\ probe.wait = "fault"

\* an interrupt was raised at a statement of the keyword loop
InterruptRaised ==
    \/ pc = "interrupt"
    \/ seen \cap {"interrupt", "recovery_interrupt"} # {}

\* lines 146-150: the interrupt handler and the finally clause, and nothing
\* of the loop after them
OnlyStops ==
    /\ attempted' = attempted
    /\ outcomes' = outcomes
    /\ pc' \in {"interrupt", "done"}

\* C14: once the operator's interrupt was raised in the keyword loop, no
\* keyword and no candidate is started any more, no handler of the loop
\* absorbs it, and the run ends with the session closed exactly once.
C14_InterruptStopsTheRun ==
    /\ [][(InterruptRaised => OnlyStops)]_vars
    /\ [][(pc' = "done" /\ InterruptRaised' => browser' = "closed" /\ closes' = 1)]_vars

\* ------------------------------------------------- the corrupt store claims

\* the kinds of a progress file that is no JSON object or cannot be read
NotAnObject == {"garbage", "number", "list", "not_utf8"}

\* the progress file process_keyword_results leaves after starting from the
\* default of line 83
FreshProgress(keyword, total_keywords) ==
    [kind |-> "dict", completed_keywords |-> <<keyword>>, total_keywords |-> total_keywords]

\* a call of process_keyword_results on such a progress file returns and
\* writes the fresh progress
UpdatesFromFresh ==
    (/\ lastCall'.op = "process_keyword_results"
     /\ clock' # clock
     /\ progressFile.kind \in NotAnObject)
    => /\ ~lastCall'.raised
       /\ progressFile' = FreshProgress(lastCall'.keyword, lastCall'.total)

\* C15: on a progress file that holds JSON of another type than an object,
\* or that cannot be read, the progress update does not raise and persists
\* completed_keywords = [keyword] and total_keywords = the total supplied.
C15_ProgressUpdateOnCorruptFile == [][UpdatesFromFresh]_vars

\* the update was applied to a progress file holding a JSON list
C15_Witness ==
    /\ lastCall.op = "process_keyword_results"
    /\ <<"progress", "list">> \in lastCall.corrupt
    /\ progressFile = FreshProgress(lastCall.keyword, lastCall.total)

\* the file a call sees when corrupt content counts as the fresh default
AsFreshPending(file) == IF IsCorruptPending(file) THEN AbsentPending ELSE file

AsFreshList(file) == IF IsCorruptList(file) THEN AbsentList ELSE file

AsFreshProgress(file) == IF IsCorruptProgress(file) THEN AbsentProgress ELSE file

\* a call that loaded a corrupt file returns, and leaves what it leaves when
\* that file holds the fresh default
ActsAsFresh ==
    (clock' # clock /\ lastCall'.corrupt # {}) =>
        /\ ~lastCall'.raised
        /\ lastCall'.op = "add_urls_to_pending" =>
              pendingFile' = add_urls_to_pending(AsFreshPending(pendingFile),
                                                 AsFreshList(dataFile), lastCall'.urls,
                                                 lastCall'.keyword, clock)
        /\ lastCall'.op = "mark_url_as_scraped" =>
              pendingFile' = mark_url_as_scraped(AsFreshPending(pendingFile),
                                                 lastCall'.urls[1])
        /\ lastCall'.op = "save_to_json" =>
              dataFile'.items =
                  save_to_json(AsFreshList(dataFile),
                               [Note(lastCall'.urls[1], "t1", <<>>)
                                   EXCEPT !.scraped_at = clock]).items
        /\ lastCall'.op = "process_keyword_results" =>
              /\ progressFile' = UpdateProgress(AsFreshProgress(progressFile),
                                                lastCall'.keyword, lastCall'.total)
              /\ IsCorruptList(mainFile) =>
                    /\ mainFile'.others = 0
                    /\ \A i \in 1..Len(mainFile'.items) :
                          mainFile'.items[i].keyword = lastCall'.keyword

\* C16: whatever the frontier file or a result file holds (no JSON, nothing,
\* JSON of another top-level type, an object without urls, scraped_urls or
\* created_at, a list with entries that are no records), add_urls_to_pending,
\* mark_url_as_scraped, save_to_json and process_keyword_results return
\* without raising and act as on the fresh default.
C16_CorruptFileActsAsFresh == [][ActsAsFresh]_vars

\* ------------------------------------------------- the extraction claims

\* C17: the note of a page on which no selector matched is put in the batch
\* of its keyword, and once the keyword is completed it is a record of the
\* Result Store with an empty title and no image.
C17_BlankPageRecordPersisted ==
    /\ pc = "pace" =>
          \A n \in 1..Len(outcomes) :
              outcomes[n] = "blank" => BlankItem(kw_urls[n]) \in Range(new_items)
    /\ prev.how = "completed" =>
          \A n \in 1..Len(prev.batch) :
              prev.batch[n].title = "" =>
                  \E j \in 1..Len(mainFile.items) :
                      /\ mainFile.items[j].url = prev.batch[n].url
                      /\ mainFile.items[j].title = ""
                      /\ mainFile.items[j].images = <<>>

\* C18: a candidate whose page raised while its fields were read leaves no
\* record: the batch of the listing holds nothing for its URL (and the fault
\* does not end the listing).
C18_FaultedCandidateLeavesNoRecord ==
    \A k \in 1..Len(scraped_data) : scraped_data[k].url \notin faulted

\* ------------------------------------------------- the function claims

\* the work items the parts of a file stand for: one per item line, in the
\* order of the lines, with the name and the count the line was made of
RECURSIVE ItemsOf(_)
ItemsOf(parts) ==
    IF parts = <<>> THEN <<>>
    ELSE LET last == parts[Len(parts)]
         IN  ItemsOf(SubSeq(parts, 1, Len(parts) - 1))
             \o (IF last.kind = "item"
                 THEN <<[keyword |-> last.name, count |-> last.tail.value]>>
                 ELSE <<>>)

\* C19: parse_keywords returns one work item for every line that is not
\* blank and no comment, in the order of the lines: the name without the
\* leading "- ", cut at the first ":", and the count written after it, or the
\* default 5 when none is written or int() does not take it; a file that does
\* not exist gives the empty list.
C19_ParseKeywordsItems ==
    (call.fn = "parse_keywords" /\ ret # <<>>) =>
        ret[1] = IF call.arg.exists THEN ItemsOf(call.arg.parts) ELSE <<>>

\* "- k: 10", "# k:1", "", "m" gave (k, 10), (m, 5)
C19_Witness ==
    /\ call.fn = "parse_keywords"
    /\ call.arg.parts = ExampleFile
    /\ ret = << <<[keyword |-> <<"k">>, count |-> 10],
                 [keyword |-> <<"m">>, count |-> MAX_NOTES_PER_KEYWORD]>> >>

\* C20: normalize_url applied to what normalize_url returned returns the
\* same: for URLs of either path with any decoration, with both paths, with
\* none, and for the empty URL.
C20_NormalizeIdempotent ==
    call.fn = "normalize_url" =>
        \A n \in 2..Len(ret) : ret[n] = ret[1]

\* the URL with both paths was normalized twice, and to a key that is not
\* the URL
C20_Witness ==
    /\ call.fn = "normalize_url"
    /\ call.arg = U_both
    /\ ret = <<K_a, K_a>>

\* ------------------------------------------------------------ parse_count
\* scraper.py, lines 37-60.  A text is a sequence of tokens: a decimal digit,
\* ".", "W" for the ten-thousand suffix, "Y" for the hundred-million suffix,
\* "a" for any other character and " " for white space.

\* the characters the patterns \d and [\d.] match
DigitClass == Range(DecimalDigits)

NumberClass == DigitClass \cup {"."}

\* re.search(r'[..]+', text).group(): the first longest run of characters of
\* the class, <<>> when re.search returns None
search(class, text) ==
    LET hits == {p \in 1..Len(text) : text[p] \in class}
    IN  IF hits = {} THEN <<>>
        ELSE LET from == CHOOSE p \in hits : \A q \in hits : p <= q
                 ends == {q \in from..Len(text) : \A r \in from..q : text[r] \in class}
                 to   == CHOOSE q \in ends : \A r \in ends : r <= q
             IN  SubSeq(text, from, to)

\* float(s) returns for a run of digits and points: it holds a digit and
\* at most one point; else it raises ValueError
IsFloat(s) ==
    /\ \E p \in 1..Len(s) : s[p] \in DigitClass
    /\ Cardinality({p \in 1..Len(s) : s[p] = "."}) <= 1

RECURSIVE Power10(_)
Power10(n) == IF n = 0 THEN 1 ELSE 10 * Power10(n - 1)

\* int(float(s) * scale): the digits of s without the point, scaled, and
\* what lies behind the point cut off
ScaledInt(s, scale) ==
    LET points   == {p \in 1..Len(s) : s[p] = "."}
        digits   == SelectSeq(s, LAMBDA c : c # ".")
        decimals == IF points = {} THEN 0
                    ELSE Len(s) - (CHOOSE p \in points : TRUE)
    IN  (DigitsValue(digits) * scale) \div Power10(decimals)

Returned(n) == [raised |-> "", value |-> n]

Raised(error) == [raised |-> error, value |-> 0]

\* lines 48-56: one branch of parse_count
Scaled(text, scale) ==
    LET num == search(NumberClass, text)
    IN  IF num = <<>> THEN Returned(0)
        ELSE IF IsFloat(num) THEN Returned(ScaledInt(num, scale))
        ELSE Raised("ValueError")

\* lines 37-60
parse_count(text) ==
    IF text = <<>> THEN Returned(0)
    ELSE LET stripped == strip(text)
         IN  IF "W" \in Range(stripped) THEN Scaled(stripped, 10000)
             ELSE IF "Y" \in Range(stripped) THEN Scaled(stripped, 100000000)
             ELSE LET num == search(DigitClass, stripped)
                  IN  IF num = <<>> THEN Returned(0)
                      ELSE Returned(DigitsValue(num))

\* the texts parse_count is applied to: what may stand before the number,
\* a number or what looks like one, and what follows it
Before == {<<>>, <<" ">>, <<"a">>, <<"a", "1", "a">>}

Numerals ==
    {<<>>, <<"4", "2">>, <<"3">>, <<"1", ".", "2">>, <<".", "5">>, <<"1", ".">>,
     <<".">>, <<".", ".">>, <<"1", ".", "2", ".", "3">>, <<"0", ".", "0", "3">>}

After == {<<>>, <<"W">>, <<"Y">>, <<"a">>, <<" ">>, <<"Y", "W">>}

\* Python's integers have no width; the values of the model stay below 2^31
Fits(text) ==
    "W" \in Range(text) \/ "Y" \notin Range(text)
        \/ DigitsValue(SelectSeq(search(NumberClass, strip(text)), LAMBDA c : c # ".")) <= 21

Texts == {t \in {b \o n \o a : b \in Before, n \in Numerals, a \in After} : Fits(t)}

InitCount ==
    /\ StoreInit
    /\ RunInit(<<>>)
    /\ ListInit(0)
    /\ call \in {[fn |-> "parse_count", arg |-> t] : t \in Texts}
    /\ ret = <<>>

\* parse_count, applied to the text
ParseCount ==
    /\ call.fn = "parse_count"
    /\ ret = <<>>
    /\ ret' = <<parse_count(call.arg)>>
    /\ UNCHANGED call
    /\ UNCHANGED <<storeVars, runVars, listVars>>

SpecCount == InitCount /\ [][ParseCount]_vars

\* the examples of the specification
CountExamples ==
    {<<<<"1", ".", "2", "W">>, 12000>>, <<<<"3", "Y">>, 300000000>>,
     <<<<"4", "2">>, 42>>, <<<<>>, 0>>, <<<<"a">>, 0>>}

\* C21: parse_count returns for every text, and a non-negative integer: the
\* examples give their values, a string of digits gives its value, followed
\* by the ten-thousand suffix 10,000 times it and by the hundred-million
\* suffix 100,000,000 times it, and a text without a parseable number
\* (empty, letters only, points only) gives 0.
C21_ParseCountTotal ==
    call.fn = "parse_count" /\ ret # <<>> =>
        LET text   == call.arg
            digits == search(DigitClass, text)
        IN  /\ ret[1].raised = ""
            /\ ret[1].value \in Nat
            /\ \A ex \in CountExamples : text = ex[1] => ret[1].value = ex[2]
            /\ text = digits => ret[1].value = DigitsValue(digits)
            /\ digits # <<>> /\ text = digits \o <<"W">> =>
                   ret[1].value = 10000 * DigitsValue(digits)
            /\ digits # <<>> /\ text = digits \o <<"Y">> =>
                   ret[1].value = 100000000 * DigitsValue(digits)
            /\ digits = <<>> => ret[1].value = 0

\* ------------------------------------------------------ the listing claims

\* C22: a listing call for n items holds at most n items, no two candidates
\* it accepted have the same normalized key, and it accepted no profile
\* link.
C22_AcceptedFormSetByKey ==
    /\ Len(scraped_data) <= count
    /\ \A u, v \in processed_urls : normalize_url(u) = normalize_url(v) => u = v
    /\ \A p, q \in 1..Len(scraped_data) :
          normalize_url(scraped_data[p].url) = normalize_url(scraped_data[q].url) => p = q
    /\ ProfileHref \notin processed_urls

\* a step of the listing as C23 has it: it raises nothing, a scroll is
\* counted against the ceiling only after a pass that took up no new URL,
\* and a listing returns short of count only with the ceiling used up
CountsOnlyStagnantPasses ==
    /\ lpc' # "raised"
    /\ attempts' # attempts => ~took_up
    /\ lpc' = "return" /\ Len(scraped_data') < count' => attempts' = MaxAttempts

\* C23: the listing returns normally; it returns fewer than count items
\* only after the bounded number of passes that found no new candidate, a
\* pass that found one not being counted, and then returns what it has.
C23_PartialOnlyAfterStagnantPasses == [][CountsOnlyStagnantPasses]_vars

\* ------------------------------------------------------- the pacing claim

\* the iteration of a keyword starts after that of another keyword
StartsAfterAnother == kw >= 1 /\ kw' = kw + 1

\* C24: when the iteration of a keyword starts after that of another, the
\* pacing delay of lines 134-136 has run since the other ended, whether it
\* completed with a batch, with an empty batch, or in the keyword's handler.
C24_PacedBetweenKeywords == [][(StartsAfterAnother => prev.paced)]_vars

\* ----------------------------------------------- the auxiliary view claim

\* the statements of the listing between two candidates and after the last
BetweenCandidates == {"while", "cards", "return", "raised"}

\* C25: at most one page of a note is open at any moment, and none is open
\* when the processing of a candidate has ended: when the next candidate
\* starts, when a pass starts and when the listing returns.
C25_AuxiliaryViewClosed ==
    /\ tabs <= 1
    /\ lpc \in BetweenCandidates => tabs = 0

\* --------------------------------------------------- the work item claim

\* C26: every work item parse_keywords returns has an integer count of at
\* least 1, whatever the file holds, counts written as 0 or as a negative
\* number included.
C26_CountsAtLeastOne ==
    (call.fn = "parse_keywords" /\ ret # <<>>) =>
        \A n \in 1..Len(ret[1]) : ret[1][n].count \in Nat /\ ret[1][n].count >= 1

\* ----------------------------------------------------- the session claim

\* the statements at which run_automation has ended: it returned after the
\* loop, it returned after a no, or an exception left it
RunEnded == pc \in {"done", "aborted", "crashed"}

\* C27: a run that started the browsing session and has ended, by any way
\* out, has closed the session, exactly once.
C27_SessionClosedOnEveryExit ==
    RunEnded /\ browser # "none" => browser = "closed" /\ closes = 1

\* -------------------------------------------------------- the image claim

\* no two stored records point to the same image file
PathsDistinct ==
    \A p, q \in 1..Len(mainFile.items) :
        /\ p # q
        /\ mainFile.items[p].local_image_path # NoPath
        => mainFile.items[p].local_image_path # mainFile.items[q].local_image_path

\* the image file a stored record points to holds the image of that record
ImageIsOwn ==
    \A p \in 1..Len(mainFile.items) :
        mainFile.items[p].local_image_path # NoPath =>
            imageFiles[mainFile.items[p].local_image_path] = ImageUrl(mainFile.items[p])

\* every item of the batch just processed is stored, and one without a
\* fetched image has no path
BatchStored ==
    lastCall.op = "process_keyword_results" =>
        \A n \in 1..Len(lastCall.urls) :
            \E p \in 1..Len(mainFile.items) :
                /\ mainFile.items[p].url = lastCall.urls[n]
                /\ ImageUrl(mainFile.items[p]) = "" => mainFile.items[p].local_image_path = NoPath

\* C28: after any calls of process_keyword_results, no two records of the
\* Result Store have the same local_image_path that is set, the image file
\* of a stored record was not overwritten with the image of another item,
\* and an item whose image was not fetched is stored with the path unset.
C28_ImagePathsDistinct ==
    /\ PathsDistinct
    /\ ImageIsOwn
    /\ BatchStored

=============================================================================
